---- MODULE Spec2Model ----
(***************************************************************************)
(* Model of src/app/api/github-feed/route.ts: the GET route that fetches   *)
(* and normalizes GitHub events (lines 18-237) and the Page presenter that *)
(* keeps the local capture log (lines 375-614).                            *)
(***************************************************************************)
EXTENDS Integers, Sequences, FiniteSets, TLC

VARIABLES
    \* ---- GET route (lines 18-81) ----
    req,          \* the request being served: username, includeReceived, bearer
    routePc,      \* "idle" | "awaiting" (Promise.all pending) | "done"
    outbound,     \* outbound requests issued for the current request
    userRes,      \* outcome of the primary fetch (line 43)
    receivedRes,  \* outcome of the secondary fetch (line 44)
    response,     \* the NextResponse returned
    env,          \* what callers send and upstream answers while the route serves
    bearer,       \* req.headers.get("authorization") || "", line 23
    headers,      \* the Authorization entry of the outbound headers, lines 29-35
    outboundHeaders, \* the headers each outbound request was issued with
    rateHeaders,  \* the x-ratelimit-* headers of the primary response
    \* ---- Page presenter (lines 375-614) ----
    pagePc,         \* "rendered" (first render done, effects not yet run) | "ready"
    tracking,       \* useState(false), line 385
    myEvents,       \* useState([]), line 386: the local capture list
    storage,        \* the localStorage item under trackingKey
    pendingEffects, \* dependencies changed by the last commit, effects not yet run
    listeners,      \* the window/document listeners registered by the tracking effect
    heartbeatRef,   \* heartbeatRef.current: 0 for null, else the interval's id
    maxScroll,      \* the scroll watermark of the running tracking effect, line 451
    scrolled,       \* whether onScroll has run in the running tracking effect
    observed,       \* the depths onScroll has computed in the running tracking effect
    pathname,       \* the current route (pathname and search parameters)
    prevRouteRef,   \* prevRouteRef.current, line 522
    nextId,         \* the next id crypto.randomUUID() gives
    download,       \* the file last written by exportLocal
    reader,         \* the file a FileReader is reading
    userFiles,      \* the files the user can pick for import
    capturesLeft,   \* local capture events the visit still produces
    fileOpsLeft,    \* exports and imports the visit still sees
    faultsLeft,     \* localStorage calls that still throw during the visit
    lastOp,         \* the handler that ran last, with its input
    username,       \* useState(DEFAULT_USERNAME), line 376
    token,          \* useState(""), line 377
    includeReceived, \* useState(true), line 378
    perPage,        \* useState(30), line 379
    loading,        \* useState(false), line 380
    error,          \* useState(null), line 381: "" for null
    gh,             \* useState(null), line 382: the remote snapshot
    inflight,       \* the fetches of fetchGithub awaiting their response
    issued,         \* the number of fetches issued so far
    memo,           \* the dependencies useMemo computed unified from, line 583
    refreshesLeft,  \* clicks on the refresh button the visit still sees
    editsLeft       \* edits of the form the visit still sees

routeVars ==
    <<req, routePc, outbound, userRes, receivedRes, response,
      env, bearer, headers, outboundHeaders, rateHeaders>>

pageVars ==
    <<pagePc, tracking, myEvents, storage, pendingEffects, listeners, heartbeatRef,
      maxScroll, scrolled, observed, pathname, prevRouteRef, nextId, download, reader, userFiles,
      capturesLeft, fileOpsLeft, faultsLeft, lastOp,
      username, token, includeReceived, perPage, loading, error, gh, inflight, issued,
      memo, refreshesLeft, editsLeft>>

\* the form of lines 376-379
formVars == <<username, token, includeReceived, perPage>>

\* the state of the remote feed, lines 380-382
fetchVars == <<loading, error, gh, inflight, issued>>

budgetVars == <<refreshesLeft, editsLeft>>

vars == <<routeVars, pageVars>>

----------------------------------------------------------------------------
(* Bounds of the model *)

\* longest primary (user events) body
MaxUserEvents == 2
\* longest secondary (received events) body
MaxReceivedEvents == 1
\* local capture events of a visit with exports and imports, or with storage
\* faults
MaxCaptured == 2
\* local capture events of a visit without either
MaxCapturedOnly == 4
\* local capture events added to a log that starts near the cap
MaxCapturedFull == 2
\* exports and imports of a visit
MaxFileOps == 2
\* localStorage calls that throw during a visit
MaxStorageFaults == 1
\* longest upstream body while the request and response headers vary
MaxHeaderBodies == 0
\* clicks on the refresh button during a visit
MaxRefreshes == 1
\* edits of the form during a visit
MaxEdits == 1

----------------------------------------------------------------------------
(* Remote events *)

\* Event ids stand for the id strings of the remote events.  Ids 1 and 2 stand
\* for the keys "1" and "2", which are array indices as object keys; id 3
\* stands for a key that is not an array index (such as "41234567890").
Ids == {1, 2, 3}
IndexIds == {1, 2}

\* created_at, as the number new Date(created_at).getTime() yields
Times == {10, 11, 12}

EventTypes == {"PushEvent"}

RemoteEvent == [id : Ids, type : EventTypes, created_at : Times]

\* the categories normalizeEvent has a case for (lines 102-212)
KnownTypes ==
    {"PushEvent", "PullRequestEvent", "IssuesEvent", "IssueCommentEvent", "WatchEvent",
     "ForkEvent", "CreateEvent", "ReleaseEvent", "PublicEvent"}

\* categories of the events API it has no case for
OtherTypes == {"MemberEvent", "GollumEvent"}

\* a remote event of any category
TypedEvent == [id : Ids, type : KnownTypes \cup OtherTypes, created_at : Times]

\* a null entry of a JSON array, removed by filter(Boolean)
NullEntry == [id |-> 0, type |-> "null", created_at |-> 0]

Entry == RemoteEvent \cup {NullEntry}

SeqsUpTo(S, n) == UNION {[1..k -> S] : k \in 0..n}


----------------------------------------------------------------------------
(* GET: inputs and upstream outcomes *)

\* searchParams.get("username"): null when absent, else the string
AbsentParam == [present |-> FALSE, value |-> ""]
UsernameParams ==
    {AbsentParam, [present |-> TRUE, value |-> ""], [present |-> TRUE, value |-> "octocat"]}

Requests == [username : UsernameParams, includeReceived : BOOLEAN]

NoRequest == [username |-> AbsentParam, includeReceived |-> FALSE]

\* What a fetch() settles to.  settled = "rejected": the request did not
\* complete.  Otherwise a Response with a status, a body text (read by text())
\* and, when parses, the array json() yields.
NoOutcome ==
    [settled |-> "none", status |-> 0, text |-> "", parses |-> FALSE, json |-> <<>>]
Rejected ==
    [settled |-> "rejected", status |-> 0, text |-> "", parses |-> FALSE, json |-> <<>>]
\* Promise.resolve(null), the placeholder of line 44
NullRes ==
    [settled |-> "null", status |-> 0, text |-> "", parses |-> FALSE, json |-> <<>>]

ErrorStatuses == {403, 404}
ErrorTexts == {"", "Not Found"}

OkResponses(n) ==
    {[settled |-> "fulfilled", status |-> 200, text |-> "[...]", parses |-> TRUE, json |-> b] :
        b \in SeqsUpTo(Entry, n)}
    \cup {[settled |-> "fulfilled", status |-> 200, text |-> "<html>", parses |-> FALSE, json |-> <<>>]}

ErrorResponses ==
    {[settled |-> "fulfilled", status |-> s, text |-> t, parses |-> FALSE, json |-> <<>>] :
        s \in ErrorStatuses, t \in ErrorTexts}

OutcomesUpTo(n) == OkResponses(n) \cup ErrorResponses \cup {Rejected}

\* successful responses with one event of any category
TypedOutcomes ==
    {[settled |-> "fulfilled", status |-> 200, text |-> "[...]", parses |-> TRUE, json |-> <<e>>] :
        e \in TypedEvent}

UserOutcomes == OutcomesUpTo(MaxUserEvents)
ReceivedOutcomes == OutcomesUpTo(MaxReceivedEvents)

\* Response.ok
Ok(res) == res.settled = "fulfilled" /\ res.status \in 200..299

----------------------------------------------------------------------------
(* GET: header values *)

\* A header value is a string, held as the sequence of its characters.
\* headers.get(name): null when the header is absent, else the string
AbsentHeader == [present |-> FALSE, value |-> <<>>]
Header(s) == [present |-> TRUE, value |-> s]

\* the Authorization headers callers send
Authorizations ==
    {AbsentHeader,
     Header(<<>>),
     Header(<<"B", "e", "a", "r", "e", "r", " ", "t">>),
     Header(<<"b", "e", "a", "r", "e", "r", " ", "t">>),
     Header(<<"B", "E", "A", "R", "E", "R", " ", "t">>),
     Header(<<"B", "e", "a", "r", "e", "r">>),
     Header(<<"B", "a", "s", "i", "c", " ", "t">>)}

\* String.prototype.toLowerCase on the letters of the header values
LowerChar(c) ==
    CASE c = "A" -> "a" [] c = "B" -> "b" [] c = "E" -> "e" [] c = "R" -> "r"
      [] OTHER -> c

\* toLowerCase leaving the string as it is
ToLowerCase_identity(s) == s

ToLowerCase(s) == [i \in 1..Len(s) |-> LowerChar(s[i])]

StartsWith(s, prefix) ==
    Len(s) >= Len(prefix) /\ SubSeq(s, 1, Len(prefix)) = prefix

\* req.headers.get("authorization") || "", line 23
BearerOf(h) == IF h.present THEN h.value ELSE <<>>

\* bearer.toLowerCase().startsWith("bearer "), line 33
WellFormed(b) == StartsWith(ToLowerCase(b), <<"b", "e", "a", "r", "e", "r", " ">>)

\* the Authorization entry of the headers object after lines 29-35
HeadersFor(b) == IF WellFormed(b) THEN Header(b) ELSE AbsentHeader

\* the values an x-ratelimit-* header can carry
RateTexts == {<<>>, <<"0">>, <<"6", "0">>, <<"a">>}
RateValues == {AbsentHeader} \cup {Header(s) : s \in RateTexts}

\* the x-ratelimit-limit, -remaining and -reset headers of a response
RateHeaderSets == [limit : RateValues, remaining : RateValues, reset : RateValues]
NoRateHeaders == [limit |-> AbsentHeader, remaining |-> AbsentHeader, reset |-> AbsentHeader]

Digits == {"0", "1", "2", "3", "4", "5", "6", "7", "8", "9"}
DigitValue(c) ==
    CASE c = "0" -> 0 [] c = "1" -> 1 [] c = "2" -> 2 [] c = "3" -> 3 [] c = "4" -> 4
      [] c = "5" -> 5 [] c = "6" -> 6 [] c = "7" -> 7 [] c = "8" -> 8 [] OTHER -> 9

RECURSIVE DecimalValue(_)
DecimalValue(s) ==
    IF s = <<>> THEN 0
    ELSE 10 * DecimalValue(SubSeq(s, 1, Len(s) - 1)) + DigitValue(s[Len(s)])

\* Number(s) on these strings: 0 for the empty string, the value of a decimal
\* numeral, NaN otherwise
NumberOf(s) ==
    IF \A i \in 1..Len(s) : s[i] \in Digits
    THEN [nan |-> FALSE, value |-> DecimalValue(s)]
    ELSE [nan |-> TRUE, value |-> 0]

\* a counter of the rate object; an undefined one is left out of the JSON
NoCounter == [present |-> FALSE, value |-> 0]
Counter(n) == [present |-> TRUE, value |-> n]

\* (get(h) && Number(get(h))) || undefined, lines 50, 52 and 55: null, "", NaN
\* and 0 are falsy
CounterOf(h) ==
    IF ~h.present \/ h.value = <<>> THEN NoCounter
    ELSE IF NumberOf(h.value).nan \/ NumberOf(h.value).value = 0 THEN NoCounter
    ELSE Counter(NumberOf(h.value).value)

\* the rate object of lines 48-56
RateOf(hs) ==
    [limit |-> CounterOf(hs.limit), remaining |-> CounterOf(hs.remaining),
     reset |-> CounterOf(hs.reset)]
NoRate == [limit |-> NoCounter, remaining |-> NoCounter, reset |-> NoCounter]

\* What callers send and upstream answers while the route serves: whether
\* Authorization and rate headers occur, and the longest bodies
Env(withAuth, withRate, maxUser, maxReceived) ==
    [withAuth |-> withAuth, withRate |-> withRate, withTypes |-> FALSE,
     maxUser |-> maxUser, maxReceived |-> maxReceived]

\* upstream answers the primary request with one event of any category
TypedEnv(maxReceived) == [Env(FALSE, FALSE, 1, maxReceived) EXCEPT !.withTypes = TRUE]

----------------------------------------------------------------------------
(* GET: merge, normalize, sort (lines 63-75) *)

\* filter(Boolean), line 68
RECURSIVE FilterBoolean(_)
FilterBoolean(s) ==
    IF s = <<>> THEN <<>>
    ELSE IF Head(s) = NullEntry THEN FilterBoolean(Tail(s))
         ELSE <<Head(s)>> \o FilterBoolean(Tail(s))

\* The accumulator object of the reduce: keys in insertion order, and the
\* value held under each key.
EmptyAcc == [keys |-> <<>>, val |-> [i \in {} |-> NullEntry]]

InSeq(x, s) == \E i \in 1..Len(s) : s[i] = x

\* AccPut keeping the first record of a key
AccPut_keepFirst(acc, e) ==
    [keys |-> IF InSeq(e.id, acc.keys) THEN acc.keys ELSE Append(acc.keys, e.id),
     val  |-> [k \in (DOMAIN acc.val) \cup {e.id} |->
                 IF k \in DOMAIN acc.val THEN acc.val[k] ELSE e]]

\* acc[e.id] = e, line 69: a new key is added last, an existing key keeps its place
AccPut(acc, e) ==
    [keys |-> IF InSeq(e.id, acc.keys) THEN acc.keys ELSE Append(acc.keys, e.id),
     val  |-> [k \in (DOMAIN acc.val) \cup {e.id} |-> IF k = e.id THEN e ELSE acc.val[k]]]

RECURSIVE Reduce(_, _)
Reduce(acc, s) ==
    IF s = <<>> THEN acc ELSE Reduce(AccPut(acc, Head(s)), Tail(s))

\* Merge leaving the received events out
Merge_userOnly(userEvents, receivedEvents) ==
    Reduce(EmptyAcc, FilterBoolean(userEvents))

\* merged, lines 68-71
Merge(userEvents, receivedEvents) ==
    Reduce(EmptyAcc, FilterBoolean(userEvents \o receivedEvents))

RECURSIVE SelectKeys(_, _)
SelectKeys(s, S) ==
    IF s = <<>> THEN <<>>
    ELSE IF Head(s) \in S THEN <<Head(s)>> \o SelectKeys(Tail(s), S)
         ELSE SelectKeys(Tail(s), S)

RECURSIVE Ascending(_)
Ascending(S) ==
    IF S = {} THEN <<>>
    ELSE LET m == CHOOSE x \in S : \A y \in S : x <= y
         IN <<m>> \o Ascending(S \ {m})

\* Property order of an ordinary object: array-index keys ascending, then
\* the other string keys in insertion order
OwnKeys(acc) ==
    Ascending({k \in DOMAIN acc.val : k \in IndexIds})
        \o SelectKeys(acc.keys, (DOMAIN acc.val) \ IndexIds)

\* Object.values(merged), line 73
ObjectValues(acc) ==
    LET ks == OwnKeys(acc) IN [i \in 1..Len(ks) |-> acc.val[ks[i]]]

\* a dispatch in which every category takes the default case
IconOf_fallback(type) == "github"

\* the icon tag normalizeEvent gives a category (lines 101-236)
IconOf(type) ==
    CASE type = "PushEvent" -> "git-commit"
      [] type = "PullRequestEvent" -> "git-pull-request"
      [] type = "IssuesEvent" -> "git-branch"
      [] type = "IssueCommentEvent" -> "message-square"
      [] type = "WatchEvent" -> "star"
      [] type = "ForkEvent" -> "git-fork"
      [] type = "CreateEvent" -> "file-plus"
      [] type = "ReleaseEvent" -> "tag"
      [] type = "PublicEvent" -> "globe"
      [] OTHER -> "github"

\* An action text is a template string; it is held as the sequence of the
\* values interpolated into it, in order: "login" for actor.login, "payload"
\* for a value read from e.payload, and the category itself for ${type}.
ActionTextOf(type) ==
    CASE type = "PushEvent" -> <<"login", "payload", "payload">>
      [] type = "PullRequestEvent" -> <<"login", "payload", "payload", "payload">>
      [] type = "IssuesEvent" -> <<"login", "payload", "payload", "payload">>
      [] type = "IssueCommentEvent" -> <<"login", "payload">>
      [] type = "WatchEvent" -> <<"login">>
      [] type = "ForkEvent" -> <<"login">>
      [] type = "CreateEvent" -> <<"login", "payload", "payload">>
      [] type = "ReleaseEvent" -> <<"login", "payload">>
      [] type = "PublicEvent" -> <<"login">>
      [] OTHER -> <<"login", type>>

\* normalizeEvent, lines 83-237: id, type and created_at are copied, the icon
\* and the action text are dispatched on the type
normalizeEvent(e) ==
    [id |-> e.id, type |-> e.type, created_at |-> e.created_at, icon |-> IconOf(e.type),
     actionText |-> ActionTextOf(e.type)]

\* Compare with its operands swapped
Compare_ascending(a, b) == a.created_at - b.created_at

\* the comparator of line 75: negative when a goes before b
Compare(a, b) == b.created_at - a.created_at

\* Array.prototype.sort is stable: x goes after every element it does not
\* strictly precede
RECURSIVE InsertSorted(_, _)
InsertSorted(s, x) ==
    IF s = <<>> THEN <<x>>
    ELSE IF Compare(x, Head(s)) < 0 THEN <<x>> \o s
         ELSE <<Head(s)>> \o InsertSorted(Tail(s), x)

RECURSIVE SortEvents(_)
SortEvents(s) ==
    IF s = <<>> THEN <<>>
    ELSE InsertSorted(SortEvents(SubSeq(s, 1, Len(s) - 1)), s[Len(s)])

MapNormalize(s) == [i \in 1..Len(s) |-> normalizeEvent(s[i])]

\* normalized, lines 73-75
Normalized(userEvents, receivedEvents) ==
    SortEvents(MapNormalize(ObjectValues(Merge(userEvents, receivedEvents))))

----------------------------------------------------------------------------
(* GET: the handler (lines 18-81) *)

NoResponse ==
    [status |-> 0, error |-> "", hasEvents |-> FALSE, events |-> <<>>, rate |-> NoRate]

ErrorJson(msg, st) ==
    [status |-> st, error |-> msg, hasEvents |-> FALSE, events |-> <<>>, rate |-> NoRate]

EventsJson(evs, rate) ==
    [status |-> 200, error |-> "", hasEvents |-> TRUE, events |-> evs, rate |-> rate]

\* Falsy with the empty string taken for a username
Falsy_nullOnly(param) == ~param.present

\* !username, line 25: null and "" are both falsy
Falsy(param) == ~param.present \/ param.value = ""

\* text || "GitHub error", line 60
ErrorTextOf(res) == IF res.text = "" THEN "GitHub error" ELSE res.text

\* e.message || "Failed", line 79
FetchFailedMessage == "fetch failed"
JsonFailedMessage == "Unexpected token < in JSON"

\* Promise.all of line 42 rejects as soon as one of its promises rejects
AllRejects(u, r) == u.settled = "rejected" \/ r.settled = "rejected"

\* receivedRes && "ok" in receivedRes && receivedRes?.ok, line 65
ReceivedUsable(r) == r.settled = "fulfilled" /\ Ok(r)

\* lines 40-80, once both fetches have settled
Respond(u, r, hs) ==
    IF AllRejects(u, r) THEN ErrorJson(FetchFailedMessage, 500)
    ELSE IF ~Ok(u) THEN ErrorJson(ErrorTextOf(u), u.status)
    ELSE IF ~u.parses THEN ErrorJson(JsonFailedMessage, 500)
    ELSE IF ReceivedUsable(r) /\ ~r.parses THEN ErrorJson(JsonFailedMessage, 500)
    ELSE EventsJson(Normalized(u.json, IF ReceivedUsable(r) THEN r.json ELSE <<>>),
                    RateOf(hs))

\* lines 18-46: read the parameters, answer 400 or issue the outbound requests
GetStart(q, a) ==
    /\ routePc \in {"idle", "done"}
    /\ req' = q
    /\ bearer' = BearerOf(a)
    /\ userRes' = NoOutcome
    /\ receivedRes' = NoOutcome
    /\ rateHeaders' = NoRateHeaders
    /\ IF Falsy(q.username)
       THEN /\ response' = ErrorJson("username is required", 400)
            /\ outbound' = {}
            /\ headers' = AbsentHeader
            /\ routePc' = "done"
       ELSE /\ response' = NoResponse
            /\ outbound' = {"primary"} \cup (IF q.includeReceived THEN {"secondary"} ELSE {})
            /\ headers' = HeadersFor(BearerOf(a))
            /\ routePc' = "awaiting"
    /\ outboundHeaders' = [n \in outbound' |-> headers']
    /\ UNCHANGED env
    /\ UNCHANGED pageVars

\* lines 41-80: both fetches settle and the handler answers
GetSettle(u, r, hs) ==
    /\ routePc = "awaiting"
    /\ userRes' = u
    /\ receivedRes' = r
    /\ rateHeaders' = IF u.settled = "fulfilled" THEN hs ELSE NoRateHeaders
    /\ response' = Respond(u, r, rateHeaders')
    /\ routePc' = "done"
    /\ UNCHANGED <<req, outbound, env, bearer, headers, outboundHeaders>>
    /\ UNCHANGED pageVars

\* what the second promise of line 44 can settle to
SecondOutcomes == IF req.includeReceived THEN OutcomesUpTo(env.maxReceived) ELSE {NullRes}

\* the Authorization headers of the requests the route receives
AuthorizationsSent == IF env.withAuth THEN Authorizations ELSE {AbsentHeader}

\* the rate headers of the responses upstream gives
RateHeadersSent == IF env.withRate THEN RateHeaderSets ELSE {NoRateHeaders}

\* what the first promise of line 42 can settle to
FirstOutcomes == IF env.withTypes THEN TypedOutcomes ELSE OutcomesUpTo(env.maxUser)

GET ==
    \/ \E q \in Requests, a \in AuthorizationsSent : GetStart(q, a)
    \/ /\ routePc = "awaiting"
       /\ \E u \in FirstOutcomes, r \in SecondOutcomes, hs \in RateHeadersSent :
             GetSettle(u, r, hs)

\* the route before its first request
InitRouteIn(e) ==
    /\ req = NoRequest
    /\ routePc = "idle"
    /\ outbound = {}
    /\ userRes = NoOutcome
    /\ receivedRes = NoOutcome
    /\ response = NoResponse
    /\ env = e
    /\ bearer = <<>>
    /\ headers = AbsentHeader
    /\ outboundHeaders = <<>>
    /\ rateHeaders = NoRateHeaders

\* callers without an Authorization header, upstream without rate headers
InitRoute ==
    InitRouteIn(Env(FALSE, FALSE, MaxUserEvents, MaxReceivedEvents))

NextRoute == GET

----------------------------------------------------------------------------
(* Claims about the GET route, checked under SpecRoute *)

\* the ids of the non-null entries of a body
IdsOf(s) == {s[i].id : i \in {j \in 1..Len(s) : s[j] # NullEntry}}

Occurrences(s, id) == Cardinality({i \in 1..Len(s) : s[i].id = id})

\* the request has answered 200 with events
Answered200 == routePc = "done" /\ response.status = 200 /\ response.hasEvents

\* the body the secondary request contributed to an answered request
ReceivedBody == IF Ok(receivedRes) /\ receivedRes.parses THEN receivedRes.json ELSE <<>>

\* C1: a GET whose username parameter is absent or empty is answered with
\* status 400 and an error message, and issues no outbound request.
C1_MissingUsername ==
    (routePc # "idle" /\ (~req.username.present \/ req.username.value = ""))
        => /\ routePc = "done"
           /\ response.status = 400
           /\ response.error # ""
           /\ ~response.hasEvents
           /\ outbound = {}

C1_Witness ==
    /\ routePc = "done"
    /\ req.username.present
    /\ req.username.value = ""
    /\ req.includeReceived
    /\ response.status = 400

\* C2: when the secondary request fails (a non-success status, or the request
\* does not complete) while the primary succeeds, the answer is 200 and the
\* events are exactly the normalized primary events.
C2_SecondaryFailureSwallowed ==
    (/\ routePc = "done"
     /\ req.includeReceived
     /\ Ok(userRes) /\ userRes.parses
     /\ \/ receivedRes.settled = "rejected"
        \/ (receivedRes.settled = "fulfilled" /\ ~Ok(receivedRes)))
        => /\ response.status = 200
           /\ response.hasEvents
           /\ response.events = Normalized(userRes.json, <<>>)

\* C3: when the primary request completes with a non-success status S and
\* body text B, the answer has status S and its error is B, whatever the
\* secondary request did, and the answer carries no events.
C3_PrimaryErrorEchoed ==
    (/\ routePc = "done"
     /\ userRes.settled = "fulfilled"
     /\ ~Ok(userRes))
        => /\ response.status = userRes.status
           /\ response.error = userRes.text
           /\ ~response.hasEvents

\* C5: the merged collection holds every identifier exactly once, and its
\* identifiers are those of the primary collection together with those of
\* the secondary collection.
C5_MergeUniqueUnion ==
    Answered200
        => /\ \A i, j \in 1..Len(response.events) :
                response.events[i].id = response.events[j].id => i = j
           /\ {response.events[i].id : i \in 1..Len(response.events)}
                = IdsOf(userRes.json) \cup IdsOf(ReceivedBody)

C5_Witness ==
    /\ Answered200
    /\ IdsOf(userRes.json) \cap IdsOf(ReceivedBody) # {}
    /\ IdsOf(userRes.json) \ IdsOf(ReceivedBody) # {}
    /\ Len(response.events) = 2

\* C6: an identifier that occurs several times in the concatenation primary
\* then secondary is represented by its last occurrence, and the normalized
\* output for that identifier is derived from that record.
C6_LastOccurrenceWins ==
    Answered200
        => LET cat == userRes.json \o ReceivedBody
               last(id) == CHOOSE i \in 1..Len(cat) :
                              /\ cat[i].id = id
                              /\ \A j \in (i + 1)..Len(cat) : cat[j].id # id
           IN \A id \in IdsOf(cat) :
                \E k \in 1..Len(response.events) :
                    /\ response.events[k].id = id
                    /\ response.events[k].created_at = cat[last(id)].created_at
                    /\ response.events[k].type = cat[last(id)].type

C6_Witness ==
    /\ Answered200
    /\ Len(userRes.json) = 1
    /\ Len(ReceivedBody) = 1
    /\ userRes.json[1].id = ReceivedBody[1].id
    /\ userRes.json[1].created_at # ReceivedBody[1].created_at
    /\ userRes.json[1] # NullEntry
    /\ ReceivedBody[1] # NullEntry
    /\ Len(response.events) = 1
    /\ response.events[1].created_at = ReceivedBody[1].created_at

\* C7: on every successful answer the events are ordered non-increasing by
\* created_at.
C7_SortedDescending ==
    Answered200
        => \A i \in 1..(Len(response.events) - 1) :
              response.events[i].created_at >= response.events[i + 1].created_at

\* the inputs with timestamps [T, T+1, T-1] come out as [T+1, T, T-1]
C7_Witness ==
    /\ Answered200
    /\ Len(userRes.json) = 2
    /\ Len(ReceivedBody) = 1
    /\ userRes.json[1].created_at = 11
    /\ userRes.json[2].created_at = 12
    /\ ReceivedBody[1].created_at = 10
    /\ Len(response.events) = 3
    /\ response.events[1].created_at = 12
    /\ response.events[2].created_at = 11
    /\ response.events[3].created_at = 10

\* a header that is present and holds a decimal numeral
NumericHeader(h) ==
    h.present /\ Len(h.value) > 0 /\ \A i \in 1..Len(h.value) : h.value[i] \in Digits

RateCounters == {"limit", "remaining", "reset"}

\* C11: on a successful answer each rate counter equals the number its header
\* holds when the header is present and numeric (0 included), and is absent
\* exactly when the header is missing or not numeric.
C11_RateCounters ==
    Answered200
        => \A k \in RateCounters :
              /\ NumericHeader(rateHeaders[k])
                    => response.rate[k] = Counter(DecimalValue(rateHeaders[k].value))
              /\ ~response.rate[k].present <=> ~NumericHeader(rateHeaders[k])

\* the request carries no usable username
MissingUsername == ~req.username.present \/ req.username.value = ""

\* the primary request completed with a status outside 200..299
PrimaryUnsuccessful == userRes.settled = "fulfilled" /\ userRes.status \notin 200..299

\* both requests completed and every body that is read parses
Succeeded ==
    /\ userRes.settled = "fulfilled" /\ userRes.status \in 200..299 /\ userRes.parses
    /\ receivedRes.settled # "rejected"
    /\ (receivedRes.settled = "fulfilled" /\ receivedRes.status \in 200..299)
          => receivedRes.parses

\* C16: every request gets one response; its status is 400 for a missing
\* username, the upstream status when the primary request is not successful,
\* 200 on success and 500 for any other failure; every response other than
\* 200 carries an error string and no events.
C16_OneResponseByCase ==
    /\ routePc = "awaiting" => response = NoResponse
    /\ routePc = "done"
          => /\ response.status =
                   IF MissingUsername THEN 400
                   ELSE IF PrimaryUnsuccessful THEN userRes.status
                   ELSE IF Succeeded THEN 200
                   ELSE 500
             /\ response.status # 200 => (response.error # "" /\ ~response.hasEvents)

\* the header value begins with "bearer " in any mix of upper and lower case
BeginsWithBearer(s) ==
    /\ Len(s) >= 7
    /\ s[1] \in {"b", "B"} /\ s[2] \in {"e", "E"} /\ s[3] \in {"a", "A"}
    /\ s[4] \in {"r", "R"} /\ s[5] \in {"e", "E"} /\ s[6] \in {"r", "R"}
    /\ s[7] = " "

\* C17: every outbound request carries the caller's Authorization header,
\* unchanged, when that header begins with "bearer " (in any case), and carries
\* no Authorization header otherwise; both outbound requests carry the same.
C17_BearerForwarded ==
    \A n \in outbound :
        outboundHeaders[n] = IF BeginsWithBearer(bearer) THEN Header(bearer) ELSE AbsentHeader

\* an upper-case BEARER header went out on the primary and the secondary request
C17_Witness ==
    /\ routePc = "done"
    /\ outbound = {"primary", "secondary"}
    /\ bearer = <<"B", "E", "A", "R", "E", "R", " ", "t">>
    /\ outboundHeaders["primary"] = Header(bearer)
    /\ outboundHeaders["secondary"] = Header(bearer)
    /\ response.status = 200

----------------------------------------------------------------------------
(* Page: local capture events and their JSON text *)

\* slice(0, 2000), line 420
CAP == 2000

Min(a, b) == IF a <= b THEN a ELSE b

\* A MyActivityEvent (lines 295-302).  label and icon are functions of the
\* type and the meta and are left out; created_at is the clock's reading, which
\* advances from one event to the next; hasMeta is FALSE for the events built
\* without a meta (copy); depth is meta.depth of a scroll event (else -1), from
\* and to are meta.from and meta.to of a route-change event (else "").
LocalEvent(id, type, at, hasMeta, depth, from, to) ==
    [id |-> id, type |-> type, created_at |-> at, hasMeta |-> hasMeta,
     depth |-> depth, from |-> from, to |-> to]

\* One property of a serialized object: its key and its number or string
Prop(key, num, str) == [key |-> key, num |-> num, str |-> str]

\* StringifyEvent leaving the meta out
StringifyEvent_noMeta(e) ==
    <<Prop("id", e.id, ""), Prop("type", 0, e.type), Prop("created_at", e.created_at, "")>>

\* JSON.stringify of one event: its properties in order; meta only when present
StringifyEvent(e) ==
    <<Prop("id", e.id, ""), Prop("type", 0, e.type), Prop("created_at", e.created_at, "")>>
    \o (IF e.hasMeta THEN <<Prop("meta", 0, "")>> ELSE <<>>)
    \o (IF e.hasMeta /\ e.depth # -1 THEN <<Prop("meta.depth", e.depth, "")>> ELSE <<>>)
    \o (IF e.hasMeta /\ e.type = "route-change"
        THEN <<Prop("meta.from", 0, e.from), Prop("meta.to", 0, e.to)>> ELSE <<>>)

\* A text: kind "json" holds a serialized array, "garbage" does not parse,
\* "empty" is the empty string
EmptyText == [kind |-> "empty", entries |-> <<>>]
GarbageText == [kind |-> "garbage", entries |-> <<>>]

\* JSON.stringify(myEvents), lines 406 and 593
Stringify(list) ==
    [kind |-> "json", entries |-> [i \in 1..Len(list) |-> StringifyEvent(list[i])]]

HasKey(ps, k) == \E i \in 1..Len(ps) : ps[i].key = k
PropOf(ps, k) == ps[CHOOSE i \in 1..Len(ps) : ps[i].key = k]

ParseEvent(ps) ==
    LocalEvent(PropOf(ps, "id").num, PropOf(ps, "type").str, PropOf(ps, "created_at").num,
               HasKey(ps, "meta"),
               IF HasKey(ps, "meta.depth") THEN PropOf(ps, "meta.depth").num ELSE -1,
               IF HasKey(ps, "meta.from") THEN PropOf(ps, "meta.from").str ELSE "",
               IF HasKey(ps, "meta.to") THEN PropOf(ps, "meta.to").str ELSE "")

\* JSON.parse that accepts every text
Parses_always(text) == TRUE

\* JSON.parse throws on a text that is no JSON (lines 397 and 607)
Parses(text) == text.kind = "json"

\* JSON.parse(raw), lines 397 and 607
Parse(text) == [i \in 1..Len(text.entries) |-> ParseEvent(text.entries[i])]

\* the i-th most recent event of an earlier visit: heartbeats, scrolls and copies
PriorEvent(i) ==
    CASE i % 3 = 1 -> LocalEvent(0 - i, "heartbeat", 0 - i, TRUE, -1, "", "")
      [] i % 3 = 2 -> LocalEvent(0 - i, "scroll", 0 - i, TRUE, 50, "", "")
      [] OTHER -> LocalEvent(0 - i, "copy", 0 - i, FALSE, -1, "", "")

\* the log an earlier visit left with n events, most recent first
PriorLog(n) == [i \in 1..n |-> PriorEvent(i)]

\* localStorage.getItem(trackingKey): null when there is no item
NoItem == [present |-> FALSE, text |-> EmptyText]
Item(text) == [present |-> TRUE, text |-> text]

\* a file: its text, and the list it was exported from (none for a file of
\* the user's own)
NoFile == [some |-> FALSE, exported |-> FALSE, text |-> EmptyText, list |-> <<>>]
UserFile(text) == [some |-> TRUE, exported |-> FALSE, text |-> text, list |-> <<>>]
ExportedFile(list) == [some |-> TRUE, exported |-> TRUE, text |-> Stringify(list), list |-> list]

\* a JSON file of the user's own, of the shape exportLocal writes
ForeignLog ==
    <<LocalEvent(101, "scroll", 10, TRUE, 50, "", ""),
      LocalEvent(102, "copy", 12, FALSE, -1, "", "")>>

\* a handler and its input (for a file: 1 when it is an exported file)
Op(name, arg) == [op |-> name, arg |-> arg]
FileOp(name, file) == Op(name, IF file.exported THEN 1 ELSE 0)

----------------------------------------------------------------------------
(* Page: the remote feed (lines 541-583) *)

\* the variables of the local capture log, lastOp aside
localVars ==
    <<pagePc, tracking, myEvents, storage, pendingEffects, listeners, heartbeatRef,
      maxScroll, scrolled, observed, pathname, prevRouteRef, nextId, download, reader, userFiles,
      capturesLeft, fileOpsLeft, faultsLeft>>

\* line 306
DEFAULT_USERNAME == "vercel"

\* what the user can type into the form: user names, tokens (as character
\* sequences) and page sizes
Usernames == {"vercel", "a b", " ", ""}
Tokens == {<<>>, <<"t">>}
PerPages == {30, 0, 100, 101}

\* String.prototype.trim on these user names
Trim(u) == IF u = " " THEN "" ELSE u

\* a schema without the trim of line 309
ValidInput_noTrim(u, n) == u # "" /\ n >= 1 /\ n <= 100

\* githubSchema.safeParse(...).success, lines 308-312 and 545
ValidInput(u, n) == Trim(u) # "" /\ n >= 1 /\ n <= 100

\* encodeURIComponent on these user names
EncodeURIComponent(u) == CASE u = "a b" -> "a%20b" [] u = " " -> "%20" [] OTHER -> u

\* FeedRequest with the length of the local list added to per_page
FeedRequest_withLocal(u, inc, n, tok) ==
    [username |-> EncodeURIComponent(u),
     includeReceived |-> IF inc THEN "1" ELSE "0",
     per_page |-> n + Len(myEvents),
     authorization |-> IF tok # <<>> THEN Header(<<"B", "e", "a", "r", "e", "r", " ">> \o tok)
                       ELSE AbsentHeader]

\* the request of lines 551-557: the query parameters and the headers
FeedRequest(u, inc, n, tok) ==
    [username |-> EncodeURIComponent(u),
     includeReceived |-> IF inc THEN "1" ELSE "0",
     per_page |-> n,
     authorization |-> IF tok # <<>> THEN Header(<<"B", "e", "a", "r", "e", "r", " ">> \o tok)
                       ELSE AbsentHeader]

\* a fetch in flight: its number in the order of issue, and its request
Fetch(no, request) == [no |-> no, request |-> request]

\* gh: null, or the data of a response together with the number of the fetch
\* that brought it
NoSnapshot == [some |-> FALSE, events |-> <<>>, rate |-> NoRate, no |-> 0]
Snapshot(reply, no) == [some |-> TRUE, events |-> reply.events, rate |-> reply.rate, no |-> no]

OkBody(b) ==
    [settled |-> "fulfilled", status |-> 200, text |-> "[...]", parses |-> TRUE, json |-> b]

\* what upstream answers while the page is open
FeedUpstream ==
    {OkBody(<<[id |-> 1, type |-> "PushEvent", created_at |-> 12]>>),
     OkBody(<<[id |-> 2, type |-> "PushEvent", created_at |-> -2],
              [id |-> 3, type |-> "PushEvent", created_at |-> 2]>>),
     [settled |-> "fulfilled", status |-> 404, text |-> "Not Found", parses |-> FALSE,
      json |-> <<>>]}

\* the responses of the route to the page
FeedReplies == {Respond(u, NullRes, NoRateHeaders) : u \in FeedUpstream}

\* the fetch of line 551 rejects (the request did not complete): no response,
\* and the message of the error it throws
FetchRejected == [NoResponse EXCEPT !.error = "Failed to fetch"]

\* what the await of line 551 can end with
FeedOutcomes == FeedReplies \cup {FetchRejected}

\* the message of line 547
InvalidInputMessage == "invalid input"

\* an item of the unified view, lines 578-579: the event and its source
UnifiedItem(e, source) ==
    [source |-> source, id |-> e.id, type |-> e.type, created_at |-> e.created_at]

Tagged(s, source) == [i \in 1..Len(s) |-> UnifiedItem(s[i], source)]

\* the computation of lines 578-582
UnifiedOf(g, list) ==
    SortEvents(Tagged(IF g.some THEN g.events ELSE <<>>, "github") \o Tagged(list, "local"))

\* a dependency list that holds gh alone
DepsChanged_ghOnly(g, list) == memo.gh # g

\* the dependency list of line 583
DepsChanged(g, list) == memo.gh # g \/ memo.myEvents # list

\* useMemo at a render with gh = g and myEvents = list: it computes anew when a
\* dependency changed
Rendered(g, list) ==
    IF DepsChanged(g, list) THEN [gh |-> g, myEvents |-> list] ELSE memo

\* the unified view on the screen
unified == UnifiedOf(memo.gh, memo.myEvents)

\* a refresh button that is never disabled
RefreshEnabled_always == TRUE

\* disabled={loading}, line 651
RefreshEnabled == ~loading

\* fetchGithub up to its await, lines 541-557
FetchGithubStart ==
    /\ IF ValidInput(username, perPage)
       THEN /\ issued' = issued + 1
            /\ inflight' = inflight \cup
                  {Fetch(issued + 1, FeedRequest(username, includeReceived, perPage, token))}
            /\ loading' = TRUE
            /\ error' = ""
       ELSE /\ error' = InvalidInputMessage
            /\ loading' = FALSE
            /\ UNCHANGED <<issued, inflight>>
    /\ UNCHANGED gh

----------------------------------------------------------------------------
(* Page: effects *)

\* The effects of a commit run together, in the order they are declared, before
\* the next update is processed: handlers wait for pendingEffects = {}.

Routes == {"/", "/a"}
Depths == {0, 50, 80}
AllListeners == {"click", "keydown", "scroll", "visibilitychange", "copy"}

\* add without the slice
add_uncapped(e, prev) == <<e>> \o prev

\* [e, ...prev].slice(0, 2000), line 420
add(e, prev) == SubSeq(<<e>> \o prev, 1, Min(CAP, Len(prev) + 1))

\* [{...}, ...prev], lines 526-536
Prepend(e, prev) == <<e>> \o prev

\* a localStorage call may throw (quota, storage disabled)
MayFail(ok) == ok \/ faultsLeft > 0

\* a write that is lost without a failure
SetItem_lost(text, ok) == storage

\* localStorage.setItem in a try/catch that ignores a failure (lines 405-407)
SetItem(text, ok) == IF ok THEN Item(text) ELSE storage

\* a removal that leaves the item in place
RemoveItem_kept(ok) == storage

\* localStorage.removeItem in a try/catch that ignores a failure (lines 587-589)
RemoveItem(ok) == IF ok THEN NoItem ELSE storage

\* the load effect, lines 393-401: the list it sets, if any
LoadSets == storage.present /\ storage.text.kind # "empty" /\ Parses(storage.text)

\* a cleanup that forgets the copy listener
AfterCleanup_partial(ls) == ls \ {"click", "keydown", "scroll", "visibilitychange"}

\* the listeners left by the cleanup of lines 508-513
AfterCleanup(ls) == ls \ {"click", "keydown", "scroll", "visibilitychange", "copy"}

\* the watermark kept from the effect's earlier run
FreshMaxScroll_kept(old) == old

\* the watermark a run of the tracking effect starts with, line 451
FreshMaxScroll(old) == 0

\* meta.from, line 532: the updater of line 526 reads prevRouteRef.current when
\* React runs it, which is at the call of setMyEvents (the state is computed
\* eagerly) or at the next render, after line 538 has assigned full to it
FromValues(full) == {prevRouteRef, full}

\* the route-change event of lines 527-534
RouteChangeEvent(from, full) ==
    LocalEvent(nextId, "route-change", nextId, TRUE, -1, from, full)

\* the condition of line 525
RouteChangeRecorded == prevRouteRef # "" /\ tracking

\* Deeper accepting a depth equal to the watermark
Deeper_orEqual(depth, max) == depth >= max

\* the test of line 456
Deeper(depth, max) == depth > max

\* The effects of the first commit: load (393-401), persist (404-408), tracking
\* (411-418, tracking is false), route (523-539), initial load (571-575)
Mount(ok) ==
    /\ pagePc = "rendered"
    /\ MayFail(ok)
    /\ pagePc' = "ready"
    /\ storage' = SetItem(Stringify(myEvents), ok)
    /\ faultsLeft' = IF ok THEN faultsLeft ELSE faultsLeft - 1
    /\ IF LoadSets
       THEN /\ myEvents' = Parse(storage.text)
            /\ pendingEffects' = {"myEvents"}
       ELSE /\ myEvents' = myEvents
            /\ pendingEffects' = {}
    /\ heartbeatRef' = 0
    /\ prevRouteRef' = pathname
    /\ lastOp' = Op("mount", 0)
    /\ FetchGithubStart
    /\ memo' = Rendered(gh, myEvents')
    /\ UNCHANGED <<tracking, listeners, maxScroll, scrolled, observed, pathname, nextId, download, reader,
                   userFiles, capturesLeft, fileOpsLeft>>
    /\ UNCHANGED <<formVars, budgetVars>>
    /\ UNCHANGED routeVars

\* The effects of a later commit: persist when myEvents changed (404-408), the
\* tracking effect's cleanup and body when tracking changed (411-519), the route
\* effect when the route or tracking changed (523-539)
FlushEffects(ok) ==
    /\ pagePc = "ready"
    /\ pendingEffects # {}
    /\ IF "myEvents" \in pendingEffects
       THEN /\ MayFail(ok)
            /\ storage' = SetItem(Stringify(myEvents), ok)
            /\ faultsLeft' = IF ok THEN faultsLeft ELSE faultsLeft - 1
       ELSE /\ ok
            /\ UNCHANGED <<storage, faultsLeft>>
    /\ IF "tracking" \in pendingEffects
       THEN IF tracking
            THEN /\ listeners' = AllListeners
                 /\ heartbeatRef' = 1
                 /\ maxScroll' = FreshMaxScroll(maxScroll)
                 /\ scrolled' = FALSE
                 /\ observed' = {}
            ELSE /\ listeners' = AfterCleanup(listeners)
                 /\ heartbeatRef' = 0
                 /\ maxScroll' = maxScroll
                 /\ scrolled' = FALSE
                 /\ observed' = {}
       ELSE UNCHANGED <<listeners, heartbeatRef, maxScroll, scrolled, observed>>
    /\ IF pendingEffects \cap {"tracking", "route"} # {}
       THEN /\ prevRouteRef' = pathname
            /\ IF RouteChangeRecorded
               THEN /\ \E from \in FromValues(pathname) :
                          myEvents' = Prepend(RouteChangeEvent(from, pathname), myEvents)
                    /\ nextId' = nextId + 1
                    /\ capturesLeft' = capturesLeft - 1
                    /\ pendingEffects' = {"myEvents"}
               ELSE /\ pendingEffects' = {}
                    /\ UNCHANGED <<myEvents, nextId, capturesLeft>>
       ELSE /\ pendingEffects' = {}
            /\ UNCHANGED <<prevRouteRef, myEvents, nextId, capturesLeft>>
    /\ lastOp' = Op("effects", 0)
    /\ UNCHANGED <<pagePc, tracking, pathname, download, reader, userFiles, fileOpsLeft>>
    /\ memo' = Rendered(gh, myEvents')
    /\ UNCHANGED <<formVars, fetchVars, budgetVars>>
    /\ UNCHANGED routeVars

\* a handler runs once the page is ready and the last commit's effects have run
Idle == pagePc = "ready" /\ pendingEffects = {}

----------------------------------------------------------------------------
(* Page: handlers *)

\* setTracking, line 721
ToggleTracking ==
    /\ Idle
    /\ capturesLeft > 0
    /\ tracking' = ~tracking
    /\ pendingEffects' = {"tracking"}
    /\ lastOp' = Op("toggle", 0)
    /\ UNCHANGED <<pagePc, myEvents, storage, listeners, heartbeatRef, maxScroll, scrolled, observed, pathname,
                   prevRouteRef, nextId, download, reader, userFiles, capturesLeft, fileOpsLeft, faultsLeft>>
    /\ UNCHANGED <<formVars, fetchVars, budgetVars, memo>>
    /\ UNCHANGED routeVars

\* the commit of an add(e), line 420
Added(e, name, arg) ==
    /\ capturesLeft > 0
    /\ myEvents' = add(e, myEvents)
    /\ nextId' = nextId + 1
    /\ capturesLeft' = capturesLeft - 1
    /\ pendingEffects' = {"myEvents"}
    /\ lastOp' = Op(name, arg)
    /\ UNCHANGED <<pagePc, tracking, storage, listeners, heartbeatRef, pathname,
                   prevRouteRef, download, reader, userFiles, fileOpsLeft, faultsLeft>>
    /\ memo' = Rendered(gh, myEvents')
    /\ UNCHANGED <<formVars, fetchVars, budgetVars>>
    /\ UNCHANGED routeVars

\* onClick, lines 422-438
OnClick ==
    /\ Idle /\ "click" \in listeners
    /\ Added(LocalEvent(nextId, "click", nextId, TRUE, -1, "", ""), "click", 0)
    /\ UNCHANGED <<maxScroll, scrolled, observed>>

\* onKey, lines 440-449
OnKey ==
    /\ Idle /\ "keydown" \in listeners
    /\ Added(LocalEvent(nextId, "keydown", nextId, TRUE, -1, "", ""), "keydown", 0)
    /\ UNCHANGED <<maxScroll, scrolled, observed>>

\* onScroll, lines 452-467
OnScroll(depth) ==
    /\ Idle /\ "scroll" \in listeners
    /\ scrolled' = TRUE
    /\ observed' = observed \cup {depth}
    /\ IF Deeper(depth, maxScroll)
       THEN /\ maxScroll' = depth
            /\ Added(LocalEvent(nextId, "scroll", nextId, TRUE, depth, "", ""), "scroll", depth)
       ELSE /\ lastOp' = Op("scroll", depth)
            /\ UNCHANGED <<pagePc, tracking, myEvents, storage, pendingEffects, listeners,
                           heartbeatRef, maxScroll, pathname, prevRouteRef, nextId,
                           download, reader, userFiles, capturesLeft, fileOpsLeft, faultsLeft>>
            /\ UNCHANGED <<formVars, fetchVars, budgetVars, memo>>
            /\ UNCHANGED routeVars

\* onVis, lines 469-478
OnVis ==
    /\ Idle /\ "visibilitychange" \in listeners
    /\ Added(LocalEvent(nextId, "visibility", nextId, TRUE, -1, "", ""), "visibility", 0)
    /\ UNCHANGED <<maxScroll, scrolled, observed>>

\* onCopy, lines 480-488
OnCopy ==
    /\ Idle /\ "copy" \in listeners
    /\ Added(LocalEvent(nextId, "copy", nextId, FALSE, -1, "", ""), "copy", 0)
    /\ UNCHANGED <<maxScroll, scrolled, observed>>

\* the interval callback, lines 491-500
Heartbeat ==
    /\ Idle /\ heartbeatRef # 0
    /\ Added(LocalEvent(nextId, "heartbeat", nextId, TRUE, -1, "", ""), "heartbeat", 0)
    /\ UNCHANGED <<maxScroll, scrolled, observed>>

\* a navigation: usePathname/useSearchParams give a new route (lines 388-389)
Navigate(to) ==
    /\ Idle
    /\ capturesLeft > 0
    /\ to # pathname
    /\ pathname' = to
    /\ pendingEffects' = {"route"}
    /\ lastOp' = Op("navigate", 0)
    /\ UNCHANGED <<pagePc, tracking, myEvents, storage, listeners, heartbeatRef, maxScroll, scrolled, observed,
                   prevRouteRef, nextId, download, reader, userFiles, capturesLeft, fileOpsLeft, faultsLeft>>
    /\ UNCHANGED <<formVars, fetchVars, budgetVars, memo>>
    /\ UNCHANGED routeVars

\* clearLocal, lines 585-590
ClearLocal(ok) ==
    /\ Idle
    /\ MayFail(ok)
    /\ myEvents' = <<>>
    /\ storage' = RemoveItem(ok)
    /\ faultsLeft' = IF ok THEN faultsLeft ELSE faultsLeft - 1
    /\ pendingEffects' = {"myEvents"}
    /\ lastOp' = Op("clear", 0)
    /\ UNCHANGED <<pagePc, tracking, listeners, heartbeatRef, maxScroll, scrolled, observed, pathname,
                   prevRouteRef, nextId, download, reader, userFiles, capturesLeft, fileOpsLeft>>
    /\ memo' = Rendered(gh, myEvents')
    /\ UNCHANGED <<formVars, fetchVars, budgetVars>>
    /\ UNCHANGED routeVars

\* exportLocal, lines 592-600: the downloaded file holds JSON.stringify(myEvents)
ExportLocal ==
    /\ Idle
    /\ fileOpsLeft > 0
    /\ fileOpsLeft' = fileOpsLeft - 1
    /\ download' = ExportedFile(myEvents)
    /\ lastOp' = Op("export", 0)
    /\ UNCHANGED <<pagePc, tracking, myEvents, storage, pendingEffects, listeners,
                   heartbeatRef, maxScroll, scrolled, observed, pathname, prevRouteRef, nextId, reader,
                   userFiles, capturesLeft, faultsLeft>>
    /\ UNCHANGED <<formVars, fetchVars, budgetVars, memo>>
    /\ UNCHANGED routeVars

\* the files the input of line 729 can hand to onImport
Pickable == userFiles \cup (IF download.some THEN {download} ELSE {})

\* onImport, lines 602-614, up to reader.readAsText(file)
OnImport(file) ==
    /\ Idle
    /\ fileOpsLeft > 0
    /\ ~reader.some
    /\ file \in Pickable
    /\ fileOpsLeft' = fileOpsLeft - 1
    /\ reader' = file
    /\ lastOp' = FileOp("import", file)
    /\ UNCHANGED <<pagePc, tracking, myEvents, storage, pendingEffects, listeners,
                   heartbeatRef, maxScroll, scrolled, observed, pathname, prevRouteRef, nextId, download,
                   userFiles, capturesLeft, faultsLeft>>
    /\ UNCHANGED <<formVars, fetchVars, budgetVars, memo>>
    /\ UNCHANGED routeVars

\* reader.onload, lines 605-612: the parsed list replaces myEvents, or an alert
ReaderOnload ==
    /\ Idle
    /\ reader.some
    /\ reader' = NoFile
    /\ IF Parses(reader.text)
       THEN /\ myEvents' = Parse(reader.text)
            /\ pendingEffects' = {"myEvents"}
            /\ lastOp' = FileOp("loaded", reader)
       ELSE /\ lastOp' = FileOp("alert", reader)
            /\ UNCHANGED <<myEvents, pendingEffects>>
    /\ UNCHANGED <<pagePc, tracking, storage, listeners, heartbeatRef, maxScroll, scrolled, observed, pathname,
                   prevRouteRef, nextId, download, userFiles, capturesLeft, fileOpsLeft, faultsLeft>>
    /\ memo' = Rendered(gh, myEvents')
    /\ UNCHANGED <<formVars, fetchVars, budgetVars>>
    /\ UNCHANGED routeVars

\* the refresh button, line 651
Refresh ==
    /\ Idle
    /\ refreshesLeft > 0
    /\ RefreshEnabled
    /\ refreshesLeft' = refreshesLeft - 1
    /\ FetchGithubStart
    /\ lastOp' = Op("refresh", 0)
    /\ UNCHANGED <<localVars, formVars, editsLeft, memo>>
    /\ UNCHANGED routeVars

\* a finally block that leaves loading as it is
SetLoadingFinally_skipped(l) == l

\* setLoading(false) in the finally block, lines 566-568
SetLoadingFinally(l) == FALSE

\* the handler that ran last is the continuation of fetch no, which got status
SettledOp(no, status) == [op |-> "settled", arg |-> no, status |-> status]

\* fetchGithub after its await, lines 558-568: the response to fetch f arrives
FetchSettle(f, reply) ==
    /\ Idle
    /\ f \in inflight
    /\ inflight' = inflight \ {f}
    /\ IF reply.status = 200
       THEN /\ gh' = Snapshot(reply, f.no)
            /\ UNCHANGED error
       ELSE /\ error' = reply.error
            /\ UNCHANGED gh
    /\ loading' = SetLoadingFinally(loading)
    /\ memo' = Rendered(gh', myEvents)
    /\ lastOp' = SettledOp(f.no, reply.status)
    /\ UNCHANGED <<localVars, formVars, issued, budgetVars>>
    /\ UNCHANGED routeVars

\* an edit of the form: the state it changes
Edited(name) ==
    /\ Idle
    /\ editsLeft > 0
    /\ editsLeft' = editsLeft - 1
    /\ lastOp' = Op(name, 0)
    /\ UNCHANGED <<localVars, fetchVars, refreshesLeft, memo>>
    /\ UNCHANGED routeVars

\* setUsername, line 649
SetUsername(u) ==
    /\ u # username
    /\ username' = u
    /\ Edited("username")
    /\ UNCHANGED <<token, includeReceived, perPage>>

\* setToken, line 664
SetToken(tok) ==
    /\ tok # token
    /\ token' = tok
    /\ Edited("token")
    /\ UNCHANGED <<username, includeReceived, perPage>>

\* setIncludeReceived, line 679
SetIncludeReceived ==
    /\ includeReceived' = ~includeReceived
    /\ Edited("includeReceived")
    /\ UNCHANGED <<username, token, perPage>>

\* setPerPage, line 693
SetPerPage(n) ==
    /\ n # perPage
    /\ perPage' = n
    /\ Edited("perPage")
    /\ UNCHANGED <<username, token, includeReceived>>

----------------------------------------------------------------------------
(* Specifications *)

\* the first render of Page (lines 376-390) over what an earlier visit left
InitPageWith(stores, files, captures, fileOps, faults, refreshes, edits) ==
    /\ pagePc = "rendered"
    /\ tracking = FALSE
    /\ myEvents = <<>>
    /\ storage \in stores
    /\ pendingEffects = {"mount"}
    /\ listeners = {}
    /\ heartbeatRef = 0
    /\ maxScroll = 0
    /\ scrolled = FALSE
    /\ observed = {}
    /\ pathname = "/"
    /\ prevRouteRef = ""
    /\ nextId = 1
    /\ download = NoFile
    /\ reader = NoFile
    /\ userFiles = files
    /\ capturesLeft = captures
    /\ fileOpsLeft = fileOps
    /\ faultsLeft = faults
    /\ lastOp = Op("render", 0)
    /\ username = DEFAULT_USERNAME
    /\ token = <<>>
    /\ includeReceived = TRUE
    /\ perPage = 30
    /\ loading = FALSE
    /\ error = ""
    /\ gh = NoSnapshot
    /\ inflight = {}
    /\ issued = 0
    /\ memo = [gh |-> NoSnapshot, myEvents |-> <<>>]
    /\ refreshesLeft = refreshes
    /\ editsLeft = edits

\* the first render of a visit without refreshes and edits of the form
InitPage(stores, files, captures, fileOps, faults) ==
    InitPageWith(stores, files, captures, fileOps, faults, 0, 0)

\* what an earlier visit can have left in localStorage
SmallStores ==
    {NoItem, Item(EmptyText), Item(GarbageText), Item(Stringify(PriorLog(3)))}

\* a log one short of the cap, and a log at the cap
FullStores == {Item(Stringify(PriorLog(CAP - 1))), Item(Stringify(PriorLog(CAP)))}

SmallFiles == {UserFile(GarbageText), UserFile(Stringify(ForeignLog))}

\* the steps of a visit without exports and imports
NextCapture ==
    \/ \E ok \in BOOLEAN : Mount(ok)
    \/ \E ok \in BOOLEAN : FlushEffects(ok)
    \/ ToggleTracking
    \/ OnClick
    \/ OnKey
    \/ \E d \in Depths : OnScroll(d)
    \/ OnVis
    \/ OnCopy
    \/ Heartbeat
    \/ \E r \in Routes : Navigate(r)
    \/ \E ok \in BOOLEAN : ClearLocal(ok)

\* the steps of a visit
NextPage ==
    \/ NextCapture
    \/ ExportLocal
    \/ \E f \in Pickable : OnImport(f)
    \/ ReaderOnload

\* the steps of a visit in which the user works with the remote feed and the
\* capture switch, and clears the log
NextFetch ==
    \/ \E ok \in BOOLEAN : Mount(ok)
    \/ \E ok \in BOOLEAN : FlushEffects(ok)
    \/ ToggleTracking
    \/ \E ok \in BOOLEAN : ClearLocal(ok)
    \/ Refresh
    \/ \E f \in inflight, reply \in FeedOutcomes : FetchSettle(f, reply)
    \/ \E u \in Usernames : SetUsername(u)
    \/ \E tok \in Tokens : SetToken(tok)
    \/ SetIncludeReceived
    \/ \E n \in PerPages : SetPerPage(n)

\* the route serving requests (the page is not part of it)
InitServing == InitRoute /\ InitPage({NoItem}, {}, 0, 0, 0)
SpecRoute == InitServing /\ [][NextRoute]_vars

\* the route serving callers that send Authorization headers
InitAuthorized ==
    /\ InitRouteIn(Env(TRUE, FALSE, MaxHeaderBodies, MaxHeaderBodies))
    /\ InitPage({NoItem}, {}, 0, 0, 0)
SpecAuth == InitAuthorized /\ [][NextRoute]_vars

\* the route over an upstream that sends rate headers
InitRated ==
    /\ InitRouteIn(Env(FALSE, TRUE, MaxHeaderBodies, MaxHeaderBodies))
    /\ InitPage({NoItem}, {}, 0, 0, 0)
SpecRate == InitRated /\ [][NextRoute]_vars

\* the route over an upstream whose events are of any category
InitTyped == InitRouteIn(TypedEnv(MaxReceivedEvents)) /\ InitPage({NoItem}, {}, 0, 0, 0)
SpecNormalize == InitTyped /\ [][NextRoute]_vars

\* the page during a visit with exports and imports, while localStorage works
InitVisit == InitRoute /\ InitPage(SmallStores, SmallFiles, MaxCaptured, MaxFileOps, 0)
SpecPage == InitVisit /\ [][NextPage]_vars

\* the page during a visit in which localStorage calls can throw
InitFaultyVisit == InitRoute /\ InitPage(SmallStores, {}, MaxCaptured, 0, MaxStorageFaults)
SpecStorage == InitFaultyVisit /\ [][NextCapture]_vars

\* the page during a visit in which the user neither exports nor imports and
\* localStorage works
InitCaptureVisit == InitRoute /\ InitPage(SmallStores, {}, MaxCapturedOnly, 0, 0)
SpecCapture == InitCaptureVisit /\ [][NextCapture]_vars

\* the page during a visit with refreshes of the remote feed
InitFeedVisit ==
    /\ InitRoute
    /\ InitPageWith(SmallStores, {}, MaxCaptured, 0, 0, MaxRefreshes, MaxEdits)
SpecFetch == InitFeedVisit /\ [][NextFetch]_vars

\* a pending fetch settles, and the effects of a commit run
Settles == \E f \in inflight, reply \in FeedOutcomes : FetchSettle(f, reply)
EffectsRun == \E ok \in BOOLEAN : FlushEffects(ok)

\* The same visit where React runs the effects of every commit and the event
\* loop runs the continuation of every fetch, which settles with a response or
\* a rejection.  The continuation waits while the effects of a commit run, so
\* it is enabled again and again rather than without interruption: the
\* fairness on it is strong.
SpecFetchLive == SpecFetch /\ SF_vars(Settles) /\ WF_vars(EffectsRun)

\* the page during a visit that starts from a log near the cap
InitFullVisit == InitRoute /\ InitPage(FullStores, {}, MaxCapturedFull, 0, 0)
SpecCap == InitFullVisit /\ [][NextCapture]_vars

----------------------------------------------------------------------------
(* Claims about the local capture list *)

\* the entries of the persisted copy
PersistedLen == IF storage.present THEN Len(storage.text.entries) ELSE 0

\* C4: in every reachable state the local capture list holds at most 2000
\* entries, and so does its persisted copy.
C4_ListWithinCap == Len(myEvents) <= CAP /\ PersistedLen <= CAP

\* a step that commits an add: a listener or the timer created an event
AddOps == {"click", "keydown", "scroll", "visibility", "copy", "heartbeat"}
AddStep == lastOp'.op \in AddOps /\ nextId' = nextId + 1

\* C8: an add puts the new event at the head and keeps the previous entries
\* in their order; nothing is dropped below the cap, and at the cap only the
\* oldest entry is dropped, so the list holds the most recent 2000 events.
C8_AddKeepsMostRecent ==
    [][AddStep =>
          /\ Len(myEvents') >= 1
          /\ myEvents'[1].id = nextId
          /\ myEvents'[1].type = lastOp'.op
          /\ \A i \in 2..Len(myEvents') : myEvents'[i] = myEvents[i - 1]
          /\ Len(myEvents) < CAP => Len(myEvents') = Len(myEvents) + 1
          /\ Len(myEvents) >= CAP => Len(myEvents') = CAP]_vars

\* a click on a list at the cap: the new event leads, the oldest entry is gone
C8_Witness ==
    /\ lastOp.op = "click"
    /\ Len(myEvents) = CAP
    /\ myEvents[1].type = "click"
    /\ myEvents[2].type = "route-change"
    /\ myEvents[3] = PriorLog(CAP)[1]
    /\ myEvents[CAP] = PriorLog(CAP)[CAP - 2]

\* C9: importing a file written by exportLocal leaves the local list equal to
\* the list that was exported, entry for entry and in the same order.
C9_ExportImportRoundTrip ==
    [][(reader.some /\ reader.exported /\ ~reader'.some)
          => /\ lastOp'.op = "loaded"
             /\ myEvents' = reader.list]_vars

\* the log of an earlier visit (a heartbeat, a scroll with its depth, a copy
\* without meta) was exported, cleared, and imported back
C9_Witness ==
    /\ lastOp = Op("loaded", 1)
    /\ myEvents = PriorLog(3)
    /\ myEvents[2].depth = 50
    /\ ~myEvents[3].hasMeta
    /\ storage = Item(Stringify(<<>>))

\* C10: the first scroll of a capturing session with a depth above 0 emits a
\* scroll event of that depth, whatever depth earlier sessions reached.
C10_WatermarkResets ==
    [][(~scrolled /\ scrolled' /\ lastOp'.arg > 0)
          => /\ lastOp'.op = "scroll"
             /\ Len(myEvents') >= 1
             /\ myEvents'[1].type = "scroll"
             /\ myEvents'[1].depth = lastOp'.arg
             /\ myEvents'[1].id = nextId]_vars

\* a session reached 80, capture was toggled off and on, and the first scroll
\* of the new session, to 50, was emitted
C10_Witness ==
    /\ lastOp = Op("scroll", 50)
    /\ Len(myEvents) = 4
    /\ myEvents[1].type = "scroll" /\ myEvents[1].depth = 50
    /\ myEvents[2].type = "route-change"
    /\ myEvents[3].type = "scroll" /\ myEvents[3].depth = 80
    /\ myEvents[4].type = "route-change"
    /\ maxScroll = 50

----------------------------------------------------------------------------
(* Claims about the unified view and the remote feed, checked under SpecFetch *)

Count(s, x) == Cardinality({i \in 1..Len(s) : s[i] = x})

\* the remote events and the local entries with their source tags
TaggedInputs ==
    [i \in 1..Len(gh.events) |->
        [source |-> "github", id |-> gh.events[i].id, type |-> gh.events[i].type,
         created_at |-> gh.events[i].created_at]]
    \o [i \in 1..Len(myEvents) |->
        [source |-> "local", id |-> myEvents[i].id, type |-> myEvents[i].type,
         created_at |-> myEvents[i].created_at]]

\* C12: the unified view is computed from the current remote snapshot and the
\* current local list; it holds each remote event tagged "github" and each
\* local entry tagged "local" once and nothing else, ordered non-increasing
\* by created_at.
C12_UnifiedView ==
    /\ memo.gh = gh
    /\ memo.myEvents = myEvents
    /\ Len(unified) = Len(TaggedInputs)
    /\ \A i \in 1..Len(TaggedInputs) :
          Count(unified, TaggedInputs[i]) = Count(TaggedInputs, TaggedInputs[i])
    /\ \A i \in 1..(Len(unified) - 1) : unified[i].created_at >= unified[i + 1].created_at

\* two remote events interleave with a route-change event and the three
\* entries of an earlier visit
C12_Witness ==
    /\ gh.some
    /\ Len(gh.events) = 2
    /\ Len(myEvents) = 4
    /\ Len(unified) = 6
    /\ unified[1].source = "github"
    /\ unified[2].source = "local" /\ unified[2].type = "route-change"
    /\ unified[4].source = "github"
    /\ unified[5].source = "local"
    /\ unified[4].created_at = unified[5].created_at

\* C18: the request fetchGithub issues is made of the user name, the
\* include-received switch, the page size and the token alone, so states that
\* differ only in the local list and the capture switch issue the same request.
C18_RequestIgnoresLocalLog ==
    [][issued' = issued + 1
          => \E f \in inflight' :
                /\ f.no = issued'
                /\ f.request.username = EncodeURIComponent(username)
                /\ f.request.includeReceived = (IF includeReceived THEN "1" ELSE "0")
                /\ f.request.per_page = perPage
                /\ f.request.authorization =
                      (IF token = <<>> THEN AbsentHeader
                       ELSE Header(<<"B", "e", "a", "r", "e", "r", " ">> \o token))]_vars

\* a refresh with capture on and events in the local list issued the request
\* the initial load issues
C18_Witness ==
    /\ lastOp.op = "refresh"
    /\ tracking
    /\ Len(myEvents) = 4
    /\ \E f \in inflight :
          /\ f.no = 2
          /\ f.request.username = "vercel"
          /\ f.request.includeReceived = "1"
          /\ f.request.per_page = 30
          /\ f.request.authorization = AbsentHeader

\* C20, as stated: while a fetch is in flight a second fetchGithub can be
\* started.
C20_SecondFetchCanStart == (Idle /\ inflight # {}) => RefreshEnabled

\* C20, amended: while a fetch is in flight the refresh button is disabled, so
\* at most one fetch is in flight, it is the one issued last, and the remote
\* snapshot is never replaced by the result of a fetch issued earlier.
C20_OneFetchInFlight ==
    [][/\ Cardinality(inflight') <= 1
       /\ \A f \in inflight' : f.no = issued' /\ loading'
       /\ gh'.no >= gh.no]_vars

\* the result of a refresh replaced the snapshot once nothing was in flight
C20_Witness ==
    /\ issued = 2
    /\ inflight = {}
    /\ gh.some
    /\ gh.no = 2
    /\ lastOp.op = "settled" /\ lastOp.arg = 2

----------------------------------------------------------------------------
(* Claims about persistence, import, clear and teardown *)

\* C13: every change of the local list schedules the persist effect; when the
\* effect's write succeeds the persisted copy equals the in-memory list; when a
\* storage call fails the persisted copy stays as it was and the in-memory
\* list keeps the change.
C13_PersistAfterChange ==
    [][/\ myEvents' # myEvents => "myEvents" \in pendingEffects'
       /\ (pagePc = "ready" /\ "myEvents" \in pendingEffects /\ faultsLeft' = faultsLeft)
             => /\ storage'.present
                /\ storage'.text.kind = "json"
                /\ Parse(storage'.text) = myEvents'
                /\ pendingEffects' = {}
       /\ faultsLeft' < faultsLeft
             => /\ storage' = storage
                /\ lastOp'.op = "clear" => myEvents' = <<>>
                /\ lastOp'.op = "effects" => myEvents' = myEvents]_vars

\* the write of a click failed: the list has the click, the persisted copy
\* does not
C13_Witness ==
    /\ Idle
    /\ faultsLeft < MaxStorageFaults
    /\ Len(myEvents) = 2
    /\ myEvents[1].type = "click"
    /\ storage.present
    /\ Len(storage.text.entries) = 1

\* C14: when the FileReader has read the file, a text that parses replaces
\* the local list with the parsed content; a text that does not parse raises
\* the alert and leaves the local list and its persisted copy as they were.
C14_ImportReplacesOrAlerts ==
    [][(reader.some /\ ~reader'.some)
          => IF reader.text.kind = "json"
             THEN /\ myEvents' = Parse(reader.text)
                  /\ lastOp'.op = "loaded"
                  /\ "myEvents" \in pendingEffects'
             ELSE /\ lastOp'.op = "alert"
                  /\ myEvents' = myEvents
                  /\ storage' = storage
                  /\ pendingEffects' = pendingEffects]_vars

\* a file of the user's own replaced the list, then a file that does not
\* parse raised the alert and left the list and its persisted copy in place
C14_Witness ==
    /\ lastOp = Op("alert", 0)
    /\ myEvents = ForeignLog
    /\ storage = Item(Stringify(ForeignLog))

\* a step that captures an event or loads an imported file
CaptureOrImport == nextId' # nextId \/ (reader.some /\ ~reader'.some)

C19_TeardownComplete ==
    /\ []((Idle /\ ~tracking) => (listeners = {} /\ heartbeatRef = 0))
    /\ [][~tracking => nextId' = nextId]_vars

\* capture was switched on and off twice
C19_Witness ==
    /\ Idle
    /\ ~tracking
    /\ listeners = {}
    /\ heartbeatRef = 0
    /\ Len(myEvents) = 2
    /\ myEvents[1].type = "route-change" /\ myEvents[1].from = "/" /\ myEvents[1].to = "/"
    /\ myEvents[2].type = "route-change" /\ myEvents[2].from = "/" /\ myEvents[2].to = "/"

----------------------------------------------------------------------------
(* C21: the scroll watermark within one capturing session *)

\* a step in which onScroll ran: the handler that ran last is onScroll and the
\* step started from a page whose effects had run
ScrollObserved == Idle /\ lastOp'.op = "scroll"

\* the step added one scroll event carrying the observed depth
ScrollEmitted ==
    /\ nextId' = nextId + 1
    /\ Len(myEvents') > 0
    /\ myEvents'[1].type = "scroll"
    /\ myEvents'[1].depth = lastOp'.arg

\* the observed depth is above every depth observed earlier in the session
NewMaximum == \A d \in observed : lastOp'.arg > d

\* C21 as stated: within one capturing session a scroll event is emitted exactly
\* when the observed depth is strictly greater than every depth observed earlier
\* in that session, and a scroll that is not emitted adds nothing to the list.
C21_EmittedOnNewMaximum ==
    [][ScrollObserved =>
          /\ ScrollEmitted <=> NewMaximum
          /\ ~ScrollEmitted => myEvents' = myEvents]_vars

\* C21 amended: within one capturing session a scroll event is emitted exactly
\* when the observed depth is above 0 and strictly greater than every depth
\* observed earlier in that session; a scroll at depth 0, or at or below the
\* session's maximum, adds nothing to the list.
C21_EmittedAboveWatermark ==
    [][ScrollObserved =>
          /\ ScrollEmitted <=> (lastOp'.arg > 0 /\ NewMaximum)
          /\ ~ScrollEmitted => myEvents' = myEvents]_vars

\* a session emitted at 50 and at 80, and a later scroll back to 50 added nothing
C21_Witness ==
    /\ Idle /\ tracking
    /\ lastOp = Op("scroll", 50)
    /\ observed = {50, 80}
    /\ Len(myEvents) >= 2
    /\ myEvents[1].type = "scroll" /\ myEvents[1].depth = 80
    /\ myEvents[2].type = "scroll" /\ myEvents[2].depth = 50

----------------------------------------------------------------------------
(* C22: fetchGithub with invalid inputs *)

\* a step in which fetchGithub was called: the initial load or the refresh button
FetchGithubCalled ==
    \/ pagePc = "rendered" /\ pagePc' = "ready"
    \/ refreshesLeft' = refreshesLeft - 1

\* the form holds a user name that is empty or blank, or a page size outside 1..100
InvalidForm == username \in {"", " "} \/ perPage < 1 \/ perPage > 100

\* C22: called with invalid inputs (a user name that is empty after trimming, or
\* a page size outside 1..100) fetchGithub issues no request, sets an error
\* message, leaves the remote snapshot unchanged and ends with loading false;
\* called with a non-blank user name and a page size in 1..100 it issues a request.
C22_InvalidInputIssuesNothing ==
    [][FetchGithubCalled =>
          IF InvalidForm
          THEN /\ issued' = issued /\ inflight' = inflight
               /\ error' # ""
               /\ gh' = gh
               /\ loading' = FALSE
          ELSE /\ issued' = issued + 1
               /\ \E f \in inflight' \ inflight :
                     f.request.per_page \in 1..100 /\ f.request.username # ""]_vars

\* the refresh button was pressed over a blank user name after a snapshot had
\* arrived: no second request, an error on the screen, the snapshot still there
C22_Witness ==
    /\ lastOp.op = "refresh"
    /\ username = " "
    /\ issued = 1 /\ inflight = {}
    /\ error = InvalidInputMessage
    /\ gh.some
    /\ ~loading

\* the same over a page size above 100
C22_WitnessPageSize ==
    /\ lastOp.op = "refresh"
    /\ perPage = 101
    /\ issued = 1 /\ inflight = {}
    /\ error = InvalidInputMessage
    /\ ~loading

----------------------------------------------------------------------------
(* C23: the dispatch of normalizeEvent *)

\* the icon tag of each known category
KnownIcons ==
    [PushEvent |-> "git-commit", PullRequestEvent |-> "git-pull-request",
     IssuesEvent |-> "git-branch", IssueCommentEvent |-> "message-square",
     WatchEvent |-> "star", ForkEvent |-> "git-fork", CreateEvent |-> "file-plus",
     ReleaseEvent |-> "tag", PublicEvent |-> "globe"]

FallbackIcon == "github"

\* the raw events of a body, null entries aside
RawEvents(body) == {body[i] : i \in {j \in 1..Len(body) : body[j] # NullEntry}}

\* the text has the value v interpolated into it
Interpolates(text, v) == \E i \in 1..Len(text) : text[i] = v

\* C23: each of the nine known categories maps to its own fixed icon tag, and
\* every other category maps to the fallback icon with an action text that
\* contains the raw category name; for every category the event's id, type and
\* created_at are carried into the normalized event unchanged.
C23_DispatchByCategory ==
    /\ \A a, b \in DOMAIN KnownIcons :
          a # b => (KnownIcons[a] # KnownIcons[b] /\ KnownIcons[a] # FallbackIcon)
    /\ Answered200
          => \A i \in 1..Len(response.events) :
                LET ev == response.events[i] IN
                /\ \E e \in RawEvents(userRes.json) \cup RawEvents(ReceivedBody) :
                      e.id = ev.id /\ e.type = ev.type /\ e.created_at = ev.created_at
                /\ IF ev.type \in DOMAIN KnownIcons
                   THEN ev.icon = KnownIcons[ev.type]
                   ELSE ev.icon = FallbackIcon /\ Interpolates(ev.actionText, ev.type)

\* a fork event and an event of a category without a case were normalized
C23_Witness ==
    /\ Answered200
    /\ Len(response.events) = 2
    /\ \E i, j \in 1..2 :
          /\ response.events[i].type = "MemberEvent"
          /\ response.events[i].icon = "github"
          /\ response.events[j].type = "PushEvent"
          /\ response.events[j].icon = "git-commit"

----------------------------------------------------------------------------
(* C24: route-change entries *)

\* the route-change entries of the local list
RouteChanges == {i \in 1..Len(myEvents) : myEvents[i].type = "route-change"}

\* C24: a route-change event is recorded only when the route actually changed
\* while capturing: every route-change entry of the local list has a from that
\* differs from its to, and toggling capture without navigating adds no
\* route-change entry.
C24_RouteChangeOnlyOnNavigation ==
    /\ [](\A i \in RouteChanges : myEvents[i].from # myEvents[i].to)
    /\ [][(pendingEffects = {"tracking"} /\ prevRouteRef = pathname)
            => Cardinality(RouteChanges') = Cardinality(RouteChanges)]_vars

----------------------------------------------------------------------------
(* C25: the persisted log at startup *)

\* localStorage holds a log with at least one entry
StoredLog ==
    storage.present /\ Parses(storage.text) /\ Len(Parse(storage.text)) > 0

\* the persisted copy reads back as the list in memory
PersistedIsCurrent ==
    storage.present /\ Parses(storage.text) /\ Parse(storage.text) = myEvents

\* C25: at startup a previously persisted non-empty log is never replaced in
\* storage by the empty initial list: after the effects of the first commit the
\* persisted copy is either the log stored before mount or the list in memory
\* with the load applied.
C25_StoredLogSurvivesMount ==
    [][(pagePc = "rendered" /\ StoredLog)
          => (storage' = storage \/ PersistedIsCurrent')]_vars

----------------------------------------------------------------------------
(* C26: a failing fetchGithub *)

\* a step in which a fetch ended without a successful response: a status
\* outside 200..299, or no response at all
FetchFailedStep ==
    /\ inflight' # inflight
    /\ lastOp'.op = "settled"
    /\ lastOp'.status \notin 200..299

\* C26: a fetchGithub that fails (a non-success response, or the request itself
\* failing) leaves the remote snapshot as it was, sets an error message and ends
\* with loading false; and every fetch that was started eventually ends with
\* loading false, so the refresh control is never left disabled for good.
C26_FailedFetchKeepsSnapshot ==
    /\ [][FetchFailedStep => (gh' = gh /\ error' # "" /\ loading' = FALSE)]_vars
    /\ (loading ~> (~loading /\ RefreshEnabled))

\* a refresh whose request did not complete left the snapshot of the first fetch
\* on the screen, with the error and the button enabled again
C26_Witness ==
    /\ lastOp.op = "settled" /\ lastOp.arg = 2 /\ lastOp.status = 0
    /\ issued = 2 /\ inflight = {}
    /\ gh.some /\ gh.no = 1
    /\ error = "Failed to fetch"
    /\ ~loading

====
